---- MODULE Spec2Model ----
(***************************************************************************)
(* Model of durationfield.db.models.fields.duration.DurationField: the     *)
(* field's constructor, to_python (decode), get_db_prep_value /            *)
(* get_db_prep_save (encode) and deconstruct, together with the model      *)
(* attribute and the database column they convert between.                 *)
(*                                                                         *)
(* Python values are records tagged by "kind".  Python integers are        *)
(* unbounded while the checker's are 32 bits wide, and one day is          *)
(* 86400000000 microseconds, so a Python int is kept in base 10^6:         *)
(* [hi, lo] stands for hi * 1000000 + lo with 0 <= lo < 1000000 (floor     *)
(* representation, hi carries the sign).  A string is kept as the token    *)
(* sequence of its "<amount><unit>" tokens.                                *)
(***************************************************************************)
EXTENDS Integers, Sequences, FiniteSets, TLC

VARIABLES field, status, attr, column, last

vars == <<field, status, attr, column, last>>

\* ------------------------------------------------------------------ bounds
MaxDays == 1

\* --------------------------------------------------------------- constants
Million == 1000000

SecondsPerDay == 24 * 3600

Precisions == {"microseconds", "seconds", "days"}

Unset == "<unset>"

\* ----------------------------------------------------------- Python values
None == [kind |-> "none"]

PyInt(h, l) == [kind |-> "int", hi |-> h, lo |-> l]

\* int(x) for a quantity that fits the native range
ToBig(x) == PyInt(x \div Million, x % Million)

\* the native value of a Python int that fits the native range
IntVal(n) == n.hi * Million + n.lo

\* x * 1000000 as a Python int
TimesMillion(x) == PyInt(x, 0)

\* a + b on Python ints
BigAdd(a, b) == PyInt(a.hi + b.hi + ((a.lo + b.lo) \div Million), (a.lo + b.lo) % Million)

Return(v) == [tag |-> "return", val |-> v]

Raise(e) == [tag |-> "raise", exc |-> e]

\* ------------------------------------------------------ datetime.timedelta
\* timedelta(days=d, seconds=s, microseconds=us): carries microseconds into
\* seconds and seconds into days (divmod, floor), so that
\* 0 <= seconds < 86400 and 0 <= microseconds < 1000000; only days is signed.
timedelta(d, s, us) ==
    LET s2 == s + (us \div Million)
    IN  [kind |-> "timedelta",
         days |-> d + (s2 \div SecondsPerDay),
         seconds |-> s2 % SecondsPerDay,
         microseconds |-> us % Million]

\* timedelta(**{precision: value}) for an integer value
timedelta_kw(precision, n) ==
    CASE precision = "microseconds" -> timedelta(0, n.hi, n.lo)
      [] precision = "seconds" -> timedelta(0, IntVal(n), 0)
      [] precision = "days" -> timedelta(IntVal(n), 0, 0)

\* timedelta.__neg__
td_neg(td) == timedelta(-td.days, -td.seconds, -td.microseconds)

\* timedelta.__abs__
td_abs(td) == IF td.days < 0 THEN td_neg(td) ELSE td

\* ------------------------------------------------------------ text values
\* A string is [kind |-> "str", neg, toks]: an optional leading "-" and the
\* sequence of its tokens [milli, unit], the amount kept in thousandths
\* ("1.5h" is [milli |-> 1500, unit |-> "h"]); unit "" is a bare number.
PyStr(neg, toks) == [kind |-> "str", neg |-> neg, toks |-> toks]

Tok(milli, unit) == [milli |-> milli, unit |-> unit]

PyFloat(milli) == [kind |-> "float", milli |-> milli]

Units == {"w", "d", "h", "min", "s", "ms", "us"}

\* seconds in one unit, for the units of a second and above
UnitSeconds(u) ==
    CASE u = "w" -> 7 * SecondsPerDay
      [] u = "d" -> SecondsPerDay
      [] u = "h" -> 3600
      [] u = "min" -> 60
      [] u = "s" -> 1

\* whole seconds of one token
TokSeconds(t) ==
    IF t.unit \in {"ms", "us"} THEN 0 ELSE (t.milli * UnitSeconds(t.unit)) \div 1000

\* microseconds of one token beyond its whole seconds; a fraction of a
\* microsecond is truncated
TokMicros(t) ==
    CASE t.unit = "ms" -> t.milli
      [] t.unit = "us" -> t.milli \div 1000
      [] OTHER -> ((t.milli * UnitSeconds(t.unit)) % 1000) * 1000

RECURSIVE SumSeconds(_)
SumSeconds(toks) ==
    IF toks = <<>> THEN 0 ELSE TokSeconds(Head(toks)) + SumSeconds(Tail(toks))

RECURSIVE SumMicros(_)
SumMicros(toks) ==
    IF toks = <<>> THEN 0 ELSE TokMicros(Head(toks)) + SumMicros(Tail(toks))

\* the string does not conform to the grammar: no token, a token whose unit
\* is unknown or missing, or a unit that appears twice
Malformed(toks) ==
    \/ toks = <<>>
    \/ \E i \in 1..Len(toks) : toks[i].unit \notin Units
    \/ \E i, j \in 1..Len(toks) : i < j /\ toks[i].unit = toks[j].unit

\* durationfield.utils.timestring.str_to_timedelta: the duration of the
\* string, the sum of its tokens, or ValueError; a leading "-" is discarded
str_to_timedelta(str_val, precision) ==
    IF Malformed(str_val.toks)
    THEN Raise("ValueError")
    ELSE Return(timedelta(0, SumSeconds(str_val.toks), SumMicros(str_val.toks)))

\* django.utils.encoding.smart_text: a text is returned as it is, any other
\* value as the text of str(value); the text of a float is a bare number
smart_text(value) ==
    IF value.kind = "str"
    THEN value
    ELSE PyStr(value.milli < 0, <<Tok(IF value.milli < 0 THEN -value.milli ELSE value.milli, "")>>)

\* ------------------------------------------------------------ DurationField
Invalid == "ValidationError: invalid"

UnknownType == "ValidationError: unknown_type"

\* to_python reading every integer as microseconds, whatever the precision
to_python_micro(self, value) ==
    IF value.kind = "none" THEN Return(value)
    ELSE IF value.kind = "timedelta" THEN Return(value)
    ELSE IF value.kind = "int" THEN Return(timedelta_kw("microseconds", value))
    ELSE LET r == str_to_timedelta(smart_text(value), self.precision)
         IN  IF r = Raise("ValueError") THEN Raise(Invalid) ELSE r

\* to_python without the test for None: None is parsed as the text "None"
to_python_nonull(self, value) ==
    IF value.kind = "none" THEN Raise(Invalid)
    ELSE IF value.kind = "timedelta" THEN Return(value)
    ELSE IF value.kind = "int" THEN Return(timedelta_kw(self.precision, value))
    ELSE LET r == str_to_timedelta(smart_text(value), self.precision)
         IN  IF r = Raise("ValueError") THEN Raise(Invalid) ELSE r

\* to_python that does not catch the parser's ValueError as 'invalid'
to_python_uncaught(self, value) ==
    IF value.kind = "none" THEN Return(value)
    ELSE IF value.kind = "timedelta" THEN Return(value)
    ELSE IF value.kind = "int" THEN Return(timedelta_kw(self.precision, value))
    ELSE LET r == str_to_timedelta(smart_text(value), self.precision)
         IN  IF r = Raise("ValueError") THEN Raise(UnknownType) ELSE r

\* DurationField.to_python
to_python(self, value) ==
    IF value.kind = "none" THEN Return(value)
    ELSE IF value.kind = "timedelta" THEN Return(value)
    ELSE IF value.kind = "int" THEN Return(timedelta_kw(self.precision, value))
    ELSE LET str_val == smart_text(value)
         IN  IF str_val.kind = "str"
             THEN LET r == str_to_timedelta(str_val, self.precision)
                  IN  IF r = Raise("ValueError") THEN Raise(Invalid) ELSE r
             ELSE Raise(UnknownType)

\* prep_timedelta rounding the sub-second part to the nearest second
prep_timedelta_rounding(self, value) ==
    IF self.precision = "microseconds"
    THEN Return(BigAdd(BigAdd(TimesMillion(value.days * 24 * 3600),
                              TimesMillion(value.seconds)),
                       ToBig(value.microseconds)))
    ELSE IF self.precision = "seconds"
    THEN Return(ToBig(value.days * 24 * 3600 + value.seconds
                      + (IF value.microseconds >= 500000 THEN 1 ELSE 0)))
    ELSE Return(ToBig(value.days))

\* prep_timedelta leaving the days out of the seconds
prep_timedelta_nodays(self, value) ==
    IF self.precision = "microseconds"
    THEN Return(BigAdd(TimesMillion(value.seconds), ToBig(value.microseconds)))
    ELSE IF self.precision = "seconds"
    THEN Return(ToBig(value.seconds))
    ELSE Return(ToBig(value.days))

\* the body of get_db_prep_value after abs(value): the integer of a
\* timedelta at the field's precision
prep_timedelta(self, value) ==
    IF self.precision = "microseconds"
    THEN Return(BigAdd(BigAdd(TimesMillion(value.days * 24 * 3600),
                              TimesMillion(value.seconds)),
                       ToBig(value.microseconds)))
    ELSE IF self.precision = "seconds"
    THEN Return(ToBig(value.days * 24 * 3600 + value.seconds))
    ELSE IF self.precision = "days"
    THEN Return(ToBig(value.days))
    ELSE Raise("NotImplementedError")

\* get_db_prep_value without abs(value)
get_db_prep_value_noabs(self, value) ==
    IF value.kind = "none" THEN Return(None)
    ELSE IF value.kind = "int"
    THEN prep_timedelta(self, timedelta_kw(self.precision, value))
    ELSE IF value.kind = "timedelta"
    THEN prep_timedelta(self, value)
    ELSE IF value.kind = "float"
    THEN Raise("AttributeError")
    ELSE Raise("TypeError")

\* DurationField.get_db_prep_value
get_db_prep_value(self, value) ==
    IF value.kind = "none" THEN Return(None)
    ELSE IF value.kind = "int"
    THEN prep_timedelta(self, td_abs(timedelta_kw(self.precision, value)))
    ELSE IF value.kind = "timedelta"
    THEN prep_timedelta(self, td_abs(value))
    ELSE IF value.kind = "float"
    THEN Raise("AttributeError")
    ELSE Raise("TypeError")

\* DurationField.get_db_prep_save
get_db_prep_save(self, value) == get_db_prep_value(self, value)

\* DurationField.deconstruct: the keyword arguments it returns
deconstruct(self) ==
    IF self.precision # Unset THEN Return([precision |-> self.precision]) ELSE Return(<<>>)

\* ------------------------------------------------------------------ inputs
PrecisionArgs == Precisions \cup {"hours"}

SecondsSamples == {0, SecondsPerDay - 1}

MicrosSamples == {0, 900000}

\* timedelta objects, negative ones included
TimedeltaInputs ==
    { timedelta(d, s, us) : d \in (-MaxDays)..MaxDays, s \in SecondsSamples, us \in MicrosSamples }

\* integers in the unit of the precision
IntInputs(precision) ==
    CASE precision = "microseconds" ->
           { PyInt(d * SecondsPerDay + s, us) :
               d \in (-MaxDays)..MaxDays, s \in SecondsSamples, us \in MicrosSamples }
      [] precision = "seconds" ->
           { ToBig(d * SecondsPerDay + s) : d \in (-MaxDays)..MaxDays, s \in SecondsSamples }
      [] precision = "days" ->
           { ToBig(d) : d \in (-MaxDays - 1)..(MaxDays + 1) }
      [] OTHER -> {}

StrInputs ==
    { PyStr(FALSE, <<>>),
      PyStr(FALSE, <<Tok(5000, "xyz")>>),
      PyStr(FALSE, <<Tok(1000, "d")>>),
      PyStr(FALSE, <<Tok(1000, "min"), Tok(30000, "s")>>),
      PyStr(FALSE, <<Tok(1900, "s")>>),
      PyStr(FALSE, <<Tok(1000, "d"), Tok(1000, "d")>>),
      PyStr(TRUE, <<Tok(2000, "h")>>),
      PyStr(FALSE, <<Tok(1000, "w"), Tok(2000, "d"), Tok(3000, "h"), Tok(4000, "min"),
                     Tok(5000, "s"), Tok(6000, "ms"), Tok(7000, "us")>>) }

FloatInputs == { PyFloat(3140) }

Inputs(precision) ==
    {None} \cup TimedeltaInputs \cup IntInputs(precision) \cup StrInputs \cup FloatInputs

\* ------------------------------------------------------------ state machine
Call(op, arg, res) == [op |-> op, arg |-> arg, res |-> res]

Init ==
    /\ field = [precision |-> Unset]
    /\ status = "new"
    /\ attr = None
    /\ column = None
    /\ last = Call("none", None, Return(None))

\* DurationField.__init__: the message of the error reads self.precision,
\* which is not assigned yet
Construct(precision) ==
    /\ status = "new"
    /\ IF precision \notin Precisions
       THEN /\ status' = "failed"
            /\ field' = field
            /\ last' = Call("__init__", precision,
                            IF field.precision = Unset
                            THEN Raise("AttributeError")
                            ELSE Raise("NotImplementedError"))
       ELSE /\ status' = "constructed"
            /\ field' = [precision |-> precision]
            /\ last' = Call("__init__", precision, Return(None))
    /\ UNCHANGED <<attr, column>>

\* obj.attr = value: SubfieldBase passes the value through to_python
Assign(value) ==
    /\ status = "constructed"
    /\ LET r == to_python(field, value)
       IN  /\ last' = Call("to_python", value, r)
           /\ attr' = IF r.tag = "return" THEN r.val ELSE attr
    /\ UNCHANGED <<field, status, column>>

\* a row is read: the column's value passes through to_python
Load ==
    /\ status = "constructed"
    /\ LET r == to_python(field, column)
       IN  /\ last' = Call("load", column, r)
           /\ attr' = IF r.tag = "return" THEN r.val ELSE attr
    /\ UNCHANGED <<field, status, column>>

\* a lookup value is prepared for the database
Prepare(value) ==
    /\ status = "constructed"
    /\ last' = Call("get_db_prep_value", value, get_db_prep_value(field, value))
    /\ UNCHANGED <<field, status, attr, column>>

\* the row is written: the attribute passes through get_db_prep_save
Save ==
    /\ status = "constructed"
    /\ LET r == get_db_prep_save(field, attr)
       IN  /\ last' = Call("get_db_prep_save", attr, r)
           /\ column' = IF r.tag = "return" THEN r.val ELSE column
    /\ UNCHANGED <<field, status, attr>>

Deconstruct ==
    /\ status = "constructed"
    /\ last' = Call("deconstruct", None, deconstruct(field))
    /\ UNCHANGED <<field, status, attr, column>>

Next ==
    \/ \E precision \in PrecisionArgs : Construct(precision)
    \/ \E value \in Inputs(field.precision) : Assign(value)
    \/ Load
    \/ \E value \in Inputs(field.precision) : Prepare(value)
    \/ Save
    \/ Deconstruct

Spec == Init /\ [][Next]_vars

\* ------------------------------------------------------------------ claims
EncodeOps == {"get_db_prep_value", "get_db_prep_save"}

DecodeOps == {"to_python", "load"}

\* |n| of a Python int
BigAbs(n) ==
    IF n.hi >= 0 THEN n
    ELSE IF n.lo = 0 THEN PyInt(-n.hi, 0)
    ELSE PyInt(-n.hi - 1, Million - n.lo)

\* a normalized duration value that carries no sign
IsDurationValue(v) ==
    /\ v.kind = "timedelta"
    /\ v.days >= 0
    /\ v.seconds \in 0..86399
    /\ v.microseconds \in 0..999999

\* the magnitude of a timedelta in microseconds, as a Python int
TotalMicros(td) == PyInt(td.days * 86400 + td.seconds, td.microseconds)

\* n units of the precision in microseconds, as a Python int
UnitsInMicros(precision, n) ==
    CASE precision = "microseconds" -> n
      [] precision = "seconds" -> PyInt(IntVal(n), 0)
      [] precision = "days" -> PyInt(IntVal(n) * 86400, 0)

C2_DecodeIntUnsigned ==
    (last.op \in DecodeOps /\ last.arg.kind = "int") =>
        /\ last.res.tag = "return"
        /\ last.res.val.kind = "timedelta"
        /\ last.res.val.days >= 0
        /\ TotalMicros(last.res.val) = UnitsInMicros(field.precision, BigAbs(last.arg))

\* C3 (as stated): to_python of a timedelta returns its absolute value.
C3_DecodeTimedeltaAbs ==
    (last.op \in DecodeOps /\ last.arg.kind = "timedelta") =>
        /\ last.res.tag = "return"
        /\ last.res.val.kind = "timedelta"
        /\ last.res.val.days >= 0
        /\ (last.arg.days >= 0 => last.res.val = last.arg)

\* C4: for every integer and every timedelta, of either sign, and every
\* precision, the integer that encode returns is >= 0.
C4_EncodeNonNegative ==
    (last.op \in EncodeOps /\ last.arg.kind \in {"int", "timedelta"}) =>
        /\ last.res.tag = "return"
        /\ last.res.val.kind = "int"
        /\ last.res.val.hi >= 0
        /\ last.res.val.lo >= 0

C4_Witness ==
    /\ last.op = "get_db_prep_value"
    /\ last.arg.kind = "timedelta"
    /\ last.arg.days < 0
    /\ last.res.tag = "return"
    /\ last.res.val.hi > 0

\* a duration value with no component finer than the precision
FitsPrecision(precision, v) ==
    /\ IsDurationValue(v)
    /\ precision = "seconds" => v.microseconds = 0
    /\ precision = "days" => (v.seconds = 0 /\ v.microseconds = 0)

\* C5: decode(encode(v, p), p) = v for every duration value v that has no
\* component finer than p.
C5_RoundTrip ==
    (last.op \in EncodeOps /\ FitsPrecision(field.precision, last.arg)) =>
        /\ last.res.tag = "return"
        /\ to_python(field, last.res.val) = Return(last.arg)

C5_Witness ==
    /\ last.op = "get_db_prep_save"
    /\ field.precision = "seconds"
    /\ FitsPrecision(field.precision, last.arg)
    /\ last.arg.days = 1
    /\ last.arg.seconds = 86399
    /\ column = PyInt(0, 172799)
    /\ to_python(field, column) = Return(attr)

\* C6 (as stated): to_python of a value that is not None, an integer, a
\* string or a timedelta fails with the 'unknown_type' error.
C6_UnknownTypeRejected ==
    (last.op \in DecodeOps /\ last.arg.kind \notin {"none", "int", "str", "timedelta"}) =>
        last.res = Raise(UnknownType)

\* C7: None propagates unchanged and never raises: to_python(None) is None,
\* get_db_prep_value(None) and get_db_prep_save(None) are None, the NULL
\* that is written to the column.
C7_NullPropagates ==
    /\ (last.op \in DecodeOps /\ last.arg = None) => (last.res = Return(None) /\ attr = None)
    /\ (last.op \in EncodeOps /\ last.arg = None) => last.res = Return(None)
    /\ (last.op = "get_db_prep_save" /\ last.arg = None) => column = None

C7_Witness ==
    /\ last.op = "to_python"
    /\ field.precision = "days"
    /\ last.arg = None
    /\ last.res = Return(None)
    /\ attr = None
    /\ column # None

\* C8: to_python of a string fails with the 'invalid' error when the parser
\* rejects the string, and returns the parser's value when it accepts it.
C8_StringDelegates ==
    (last.op \in DecodeOps /\ last.arg.kind = "str") =>
        LET parsed == str_to_timedelta(last.arg, field.precision)
        IN  IF parsed.tag = "raise"
            THEN last.res = Raise(Invalid)
            ELSE last.res = parsed /\ attr = parsed.val

C8_Witness ==
    /\ last.op = "to_python"
    /\ last.arg = PyStr(FALSE, <<Tok(5000, "xyz")>>)
    /\ last.res = Raise(Invalid)

\* C9 (as stated): a precision outside the three fails the construction
\* with NotImplementedError and creates no field; one of the three is
\* stored, and no later operation changes it.
C9_ConstructPrecision ==
    /\ (last.op = "__init__" /\ last.arg \notin Precisions) =>
           (last.res = Raise("NotImplementedError") /\ status = "failed")
    /\ (last.op = "__init__" /\ last.arg \in Precisions) =>
           (last.res.tag = "return" /\ field.precision = last.arg)
    /\ status = "constructed" => field.precision \in Precisions

\* C10: get_db_prep_value(n) = |n| and get_db_prep_value(to_python(n)) = |n|
\* for every integer n, and a load followed by a save leaves the stored
\* integer as it was.
C10_StoredIntegerStable ==
    [][ /\ (last'.op = "get_db_prep_value" /\ last'.arg.kind = "int") =>
               last'.res = Return(BigAbs(last'.arg))
        /\ (last.op = "to_python" /\ last.arg.kind = "int" /\ last'.op = "get_db_prep_save") =>
               column' = BigAbs(last.arg)
        /\ (last.op = "load" /\ column # None /\ last'.op = "get_db_prep_save") =>
               column' = column
      ]_vars

\* a saved integer whose loaded value has been saved again
C10_Witness ==
    /\ last.op = "get_db_prep_save"
    /\ field.precision = "microseconds"
    /\ column = PyInt(86399, 900000)
    /\ attr = last.arg
    /\ to_python(field, column) = Return(attr)

====
